---- MODULE Spec2Model ----
(***************************************************************************)
(* DockerGen: the Dockerfile generation pipeline (app.js) and the CI       *)
(* provisioning flow (main.js).                                            *)
(*                                                                         *)
(* Text is a sequence of lexemes.  A lexeme is one character ("{", ",",    *)
(* "/", a blank, a line break) or an unbroken word in which none of the    *)
(* characters the program searches for occurs ("FROM", "node", ".git",     *)
(* the three-backquote code fence).  Every string operation of the source  *)
(* is computed on that sequence the way JavaScript computes it on the      *)
(* characters.                                                             *)
(***************************************************************************)
EXTENDS Integers, Sequences, FiniteSets, TLC

\* ------------------------------------------------------------------ bounds

\* Largest numeric value of MAX_RETRIES the environment is given.
MaxRetriesEnv == 3

\* Longest run of lexemes put before and after the body of a sanitizer input.
MaxWrapLen == 2

\* ------------------------------------------------------------ JS strings

WS == {" ", "\n"}

\* The markdown code fence, three backquotes, as one lexeme.
Fence == "<fence>"

RECURSIVE TrimStart(_)
TrimStart(s) ==
    IF s # <<>> /\ Head(s) \in WS THEN TrimStart(Tail(s)) ELSE s

RECURSIVE TrimEnd(_)
TrimEnd(s) ==
    IF s # <<>> /\ s[Len(s)] \in WS THEN TrimEnd(SubSeq(s, 1, Len(s) - 1)) ELSE s

Last(s) == s[Len(s)]

\* String.prototype.trim
Trim(s) == TrimEnd(TrimStart(s))

\* String.prototype.indexOf / lastIndexOf of a one-lexeme needle: 0-based, -1 when absent
IndexOf(s, c) ==
    IF \E p \in 1..Len(s) : s[p] = c
    THEN (CHOOSE p \in 1..Len(s) : s[p] = c /\ \A q \in 1..(p - 1) : s[q] # c) - 1
    ELSE -1

LastIndexOf(s, c) ==
    IF \E p \in 1..Len(s) : s[p] = c
    THEN (CHOOSE p \in 1..Len(s) : s[p] = c /\ \A q \in (p + 1)..Len(s) : s[q] # c) - 1
    ELSE -1

\* String.prototype.slice(a, b) with 0 <= a, 0 <= b (0-based, b exclusive)
Slice(s, a, b) == SubSeq(s, a + 1, IF b > Len(s) THEN Len(s) ELSE b)

\* String.prototype.split(sep) for a one-lexeme separator: always at least one piece
RECURSIVE Split(_, _)
Split(s, sep) ==
    LET p == IndexOf(s, sep)
    IN  IF p = -1 THEN <<s>>
        ELSE <<SubSeq(s, 1, p)>> \o Split(SubSeq(s, p + 2, Len(s)), sep)

\* String.prototype.replace(needle, '') for a one-lexeme needle: the first occurrence only
ReplaceFirst(s, c) ==
    LET p == IndexOf(s, c)
    IN  IF p = -1 THEN s ELSE SubSeq(s, 1, p) \o SubSeq(s, p + 2, Len(s))

\* The fence-stripping replace of the cleaners, a global regular-expression replace
\* by the empty string with two alternatives: a fence followed by the word lang and
\* any run of blanks, or any run of blanks followed by a fence.  Scanning left to
\* right, at each position the first alternative is tried before the second.
RECURSIVE StripFences(_, _)
StripFences(s, lang) ==
    IF s = <<>> THEN <<>>
    ELSE IF Len(s) >= 2 /\ s[1] = Fence /\ s[2] = lang
         THEN StripFences(TrimStart(SubSeq(s, 3, Len(s))), lang)
    ELSE IF TrimStart(s) # <<>> /\ Head(TrimStart(s)) = Fence
         THEN StripFences(Tail(TrimStart(s)), lang)
    ELSE <<Head(s)>> \o StripFences(Tail(s), lang)

\* ------------------------------------------------------------ JS numbers

NaN == [nan |-> TRUE, v |-> 0]
Num(n) == [nan |-> FALSE, v |-> n]

DigitChars == <<"0", "1", "2", "3", "4", "5", "6", "7", "8", "9">>
Digits == {DigitChars[n] : n \in 1..10}
DigitVal(c) == (CHOOSE n \in 1..10 : DigitChars[n] = c) - 1

RECURSIVE ParseDigits(_, _, _)
ParseDigits(s, acc, seen) ==
    IF s # <<>> /\ Head(s) \in Digits
    THEN ParseDigits(Tail(s), acc * 10 + DigitVal(Head(s)), TRUE)
    ELSE IF seen THEN Num(acc) ELSE NaN

\* parseInt(s, 10): leading blanks, an optional sign, the longest run of digits
ParseInt(s) ==
    LET t == TrimStart(s)
        signed == t # <<>> /\ Head(t) \in {"-", "+"}
        r == ParseDigits(IF signed THEN Tail(t) ELSE t, 0, FALSE)
    IN  IF r.nan THEN NaN
        ELSE IF signed /\ Head(t) = "-" THEN Num(0 - r.v) ELSE r

\* i < n in JavaScript: false when n is NaN
JSLess(i, n) == ~n.nan /\ i < n.v

\* i === n - 1 in JavaScript: false when n is NaN
JSIsLast(i, n) == ~n.nan /\ i = n.v - 1

\* process.env.X || dflt : an unset and an empty variable both take the default
OrDefault(s, dflt) == IF s = <<>> THEN dflt ELSE s

\* ------------------------------------------------------------- sanitizers

\* the slice taken between the braces instead of from brace to brace
cleanJSONResponse_Inner(response) ==
    LET cleaned == StripFences(response, "json")
        startIndex == IndexOf(cleaned, "{")
        endIndex == LastIndexOf(cleaned, "}")
    IN  IF startIndex # -1 /\ endIndex # -1 /\ endIndex > startIndex
        THEN Slice(cleaned, startIndex + 1, endIndex)
        ELSE cleaned

\* cleanJSONResponse
cleanJSONResponse(response) ==
    LET cleaned == StripFences(response, "json")
        startIndex == IndexOf(cleaned, "{")
        endIndex == LastIndexOf(cleaned, "}")
    IN  IF startIndex # -1 /\ endIndex # -1 /\ endIndex > startIndex
        THEN Slice(cleaned, startIndex, endIndex + 1)
        ELSE cleaned

\* String.prototype.toLowerCase on one lexeme; only the spellings of "from" matter
Lower(c) == IF c \in {"FROM", "From"} THEN "from" ELSE c

\* content.toLowerCase().indexOf('from')
FromIndex(content) ==
    IF \E p \in 1..Len(content) : Lower(content[p]) = "from"
    THEN (CHOOSE p \in 1..Len(content) :
              /\ Lower(content[p]) = "from"
              /\ \A q \in 1..(p - 1) : Lower(content[q]) # "from") - 1
    ELSE -1

\* the closing step of both cleanDockerfileContent iterations: one enclosing pair of quotes
StripQuotes(content) ==
    IF content # <<>> /\ \/ (Head(content) = "\"" /\ content[Len(content)] = "\"")
                         \/ (Head(content) = "'" /\ content[Len(content)] = "'")
    THEN SubSeq(content, 2, Len(content) - 1)
    ELSE content

\* cleanDockerfileContent, first iteration of app.js
cleanDockerfileContent1(content) ==
    LET trimmed == Trim(content)
        fromIndex == FromIndex(trimmed)
        cut == IF fromIndex > 0 THEN SubSeq(trimmed, fromIndex + 1, Len(trimmed)) ELSE trimmed
    IN  StripQuotes(StripFences(cut, "dockerfile"))

\* cleanDockerfileContent, second iteration of app.js
cleanDockerfileContent2(content) ==
    StripQuotes(Trim(StripFences(content, "Dockerfile")))

cleanDockerfileContent(v, content) ==
    IF v = 1 THEN cleanDockerfileContent1(content) ELSE cleanDockerfileContent2(content)

\* ------------------------------------------------------------------ JSON

JsonStrings == {"\"k\"", "\"v\""}
JsonScalars == JsonStrings \cup {"1", "null", "true", "false"}

RECURSIVE SkipWs(_, _)
SkipWs(s, p) == IF p <= Len(s) /\ s[p] \in WS THEN SkipWs(s, p + 1) ELSE p

Tok(s, p) == IF p >= 1 /\ p <= Len(s) THEN s[p] ELSE "<eof>"

\* The JSON grammar: each operator takes the position where its construct starts and
\* yields the position after it, or 0 when the text is not of that form.
RECURSIVE ParseValue(_, _)
RECURSIVE ParseMembers(_, _)
RECURSIVE ParseElements(_, _)

ParseValue(s, p) ==
    LET q == SkipWs(s, p)
        t == Tok(s, q)
    IN  IF t \in JsonScalars THEN q + 1
        ELSE IF t = "{"
             THEN IF Tok(s, SkipWs(s, q + 1)) = "}" THEN SkipWs(s, q + 1) + 1
                  ELSE ParseMembers(s, q + 1)
        ELSE IF t = "["
             THEN IF Tok(s, SkipWs(s, q + 1)) = "]" THEN SkipWs(s, q + 1) + 1
                  ELSE ParseElements(s, q + 1)
        ELSE 0

ParseMembers(s, p) ==
    LET q == SkipWs(s, p)
        c == SkipWs(s, q + 1)
    IN  IF Tok(s, q) \notin JsonStrings \/ Tok(s, c) # ":" THEN 0
        ELSE LET v == ParseValue(s, c + 1)
                 e == SkipWs(s, v)
             IN  IF v = 0 THEN 0
                 ELSE IF Tok(s, e) = "," THEN ParseMembers(s, e + 1)
                 ELSE IF Tok(s, e) = "}" THEN e + 1
                 ELSE 0

ParseElements(s, p) ==
    LET v == ParseValue(s, p)
        e == SkipWs(s, v)
    IN  IF v = 0 THEN 0
        ELSE IF Tok(s, e) = "," THEN ParseElements(s, e + 1)
        ELSE IF Tok(s, e) = "]" THEN e + 1
        ELSE 0

JSONValid(s) ==
    LET e == ParseValue(s, 1)
    IN  e # 0 /\ SkipWs(s, e) = Len(s) + 1

\* typeof / shape of the value a valid text denotes
JSONKind(s) ==
    LET t == Tok(s, SkipWs(s, 1))
    IN  IF t = "{" THEN "object"
        ELSE IF t = "[" THEN "array"
        ELSE IF t = "null" THEN "null"
        ELSE IF t \in {"true", "false"} THEN "boolean"
        ELSE IF t \in JsonStrings THEN "string"
        ELSE "number"

\* JSON.parse: ok = FALSE stands for the SyntaxError it throws.  The value is kept
\* as its lexemes without the insignificant blanks.
JSONParse(s) ==
    IF JSONValid(s)
    THEN [ok |-> TRUE, kind |-> JSONKind(s), value |-> SelectSeq(s, LAMBDA c : c \notin WS)]
    ELSE [ok |-> FALSE, kind |-> "none", value |-> <<>>]

\* JSON.stringify(value, null, 2): line breaks after an opening bracket and a comma
\* and before a closing bracket of a non-empty container, a blank after a colon.
RECURSIVE JSONStringify(_)
JSONStringify(v) ==
    IF v = <<>> THEN <<>>
    ELSE LET h == Head(v)
             r == Tail(v)
         IN  IF h \in {"{", "["}
             THEN IF r # <<>> /\ Head(r) \in {"}", "]"}
                  THEN <<h, Head(r)>> \o JSONStringify(Tail(r))
                  ELSE <<h, "\n">> \o JSONStringify(r)
             ELSE IF h \in {"}", "]"} THEN <<"\n", h>> \o JSONStringify(r)
             ELSE IF h = "," THEN <<",", "\n">> \o JSONStringify(r)
             ELSE IF h = ":" THEN <<":", " ">> \o JSONStringify(r)
             ELSE <<h>> \o JSONStringify(r)

\* ----------------------------------------------------------- environment

\* The repository URLs given on the command line: with and without the .git suffix,
\* and with ".git" inside the last segment (my.github.io).
RepoUrls ==
    { <<"https:", "/", "/", "example.com", "/", "owner", "/", "repo", ".git">>,
      <<"https:", "/", "/", "example.com", "/", "owner", "/", "repo">>,
      <<"https:", "/", "/", "example.com", "/", "owner", "/", "my", ".git", "hub.io">> }

MultiStageFlag == <<"--multi-stage">>

\* process.argv.slice(2): no argument, a URL, a URL and --multi-stage
ArgvChoices ==
    {<<>>} \cup {<<u>> : u \in RepoUrls}
           \cup {<<u, MultiStageFlag>> : u \in {v \in RepoUrls : Last(v) = "repo"}}

MaxRetriesChoices ==
    {<<>>, <<"-", "1">>, <<"a", "b", "c">>} \cup {<<DigitChars[n + 1]>> : n \in 0..MaxRetriesEnv}

RetryDelayChoices == {<<>>, <<"5">>}

MultiStageChoices == {<<>>, <<"true">>, <<"false">>}

ApiUrlChoices == {<<>>, <<"http:", "/", "/", "gpt">>}

TokenChoices == {<<>>, <<"ghp">>}

\* The arguments of main.js: none, a repository URL, a URL with no repository in its
\* path, a string that is no URL, two arguments.
MainArgvChoices ==
    { <<>>,
      << <<"https:", "/", "/", "github.com", "/", "owner", "/", "repo", ".git">> >>,
      << <<"https:", "/", "/", "github.com", "/", "owner">> >>,
      << <<"owner", "/", "repo">> >>,
      << <<"https:", "/", "/", "github.com", "/", "owner", "/", "repo">>, <<"x">> >> }

\* The working tree of the repository: its regular files and its directories, as
\* paths relative to the repository root (the root itself is the empty path).
TreeFiles == {<<"package.json">>, <<"app.js">>}
TreeDirs == {<<>>, <<"src">>}
FileText(f) == <<"text", "of">> \o f

OldDockerfile == <<"FROM", " ", "old">>

\* What the completion endpoint may answer to each of the three prompts.
\* "list up to 10 files": the number the key-file prompt asks for
KeyFileLimit == 10

\* n paths separated by commas
RECURSIVE CommaList(_, _)
CommaList(file, n) == IF n <= 1 THEN file ELSE file \o <<",">> \o CommaList(file, n - 1)

\* A good answer, one with a path that is not in the tree, one that names a
\* directory, one with a trailing comma (its last entry is empty), and one that lists
\* one path more than the prompt asked for.
KeyFileResponses ==
    { <<"package.json", ",", " ", "app.js">>,
      <<" ", "package.json", ",", "missing.txt", "\n">>,
      <<"package.json", ",", "src">>,
      <<"package.json", ",">>,
      CommaList(<<"app.js">>, KeyFileLimit + 1) }

AnalysisResponses ==
    { <<"{", "\"k\"", ":", "1", "}", "\n">>,
      <<"Here", ":", "\n", Fence, "json", "\n", "{", "\"k\"", ":", " ", "[", "1", "]", "}", "\n", Fence>>,
      <<"null">>,
      <<"[", "1", "]">>,
      <<"[", "{", "}", ",", "{", "}", "]">>,
      <<"I", " ", "cannot">> }

GenerationResponses ==
    { <<"\n", "FROM", " ", "node", "\n">>,
      <<Fence, "dockerfile", "\n", "FROM", " ", "node", "\n", Fence>>,
      <<"\"", "FROM", " ", "node", "\"">>,
      <<Fence, "\n", Fence>> }

Responses(r) ==
    IF r = "keyfiles" THEN KeyFileResponses
    ELSE IF r = "analysis" THEN AnalysisResponses
    ELSE GenerationResponses

\* ----------------------------------------------------------------- state

VARIABLES
    variant,            \* which iteration of app.js runs: 1 (lines 1-310) or 2 (lines 311-609)
    env,                \* process.env
    argv,               \* process.argv.slice(2) of app.js
    dirs,               \* the directories that exist beside the scripts
    dockerfile,         \* <repoPath>/Dockerfile: [exists, text]
    before,             \* <repoPath>/Dockerfile as it was when the run started
    pc,                 \* where app.js stands
    exitCode,           \* the exit status of app.js, -1 while it has not exited
    useMultiStage,
    repoPath,
    req,                \* the logical request callGPTAPIWithRetry is serving
    prompt,             \* its prompt
    i,                  \* its loop counter
    trace,              \* what it did: post, fail, wait (with the delay), ok
    content,            \* the raw message content of the successful response
    result,             \* what it returned: [defined, text]
    keyFiles,
    keyFilesContent,
    projectInfo,
    dockerfileContent,
    log,                \* the stage events of the run, in order
    entry,              \* what runs: "app", "main", or "sanitizer" (cleanJSONResponse alone)
    margv,              \* process.argv.slice(2) of main.js
    mpc,                \* where main.js stands
    mexit,              \* the exit status of main.js, -1 while it has not exited
    authenticated,      \* what verifyGitHubAccess returned: "unknown", "yes", "no"
    repoRef,            \* what parseRepoUrl returned: [owner, repo]
    actualRepoName,     \* the name of the fork
    secretIdx,          \* which of the two createOrUpdateSecret calls is running
    remote,             \* the platform: [forked, secrets, pushed]
    work,               \* the local clone of the fork: [cloned, workflow, committed, pulled]
    mlog                \* the steps main.js took, in order: <<step, secret, outcome>>

appVars ==
    <<variant, env, argv, dirs, dockerfile, before, pc, exitCode, useMultiStage, repoPath, req,
      prompt, i, trace, content, result, keyFiles, keyFilesContent, projectInfo,
      dockerfileContent, log>>

mainVars ==
    <<entry, margv, mpc, mexit, authenticated, repoRef, actualRepoName, secretIdx, remote,
      work, mlog>>

vars == <<appVars, mainVars>>

Undefined == [defined |-> FALSE, text |-> <<>>]
Str(t) == [defined |-> TRUE, text |-> t]
NoFile == [exists |-> FALSE, text |-> <<>>]
File(t) == [exists |-> TRUE, text |-> t]
NoPrompt == [kind |-> "none", info |-> <<>>, phrases |-> {}]
NoInfo == [ok |-> FALSE, kind |-> "none", value |-> <<>>]
Ev(e, d) == [ev |-> e, d |-> d]

DefaultMaxRetries == <<"3">>
DefaultRetryDelay == <<"1", "0", "0", "0">>

\* the config object
config ==
    [ gptApiUrl |-> env.GPT_API_URL,
      defaultUseMultiStage |-> (env.DEFAULT_USE_MULTI_STAGE = <<"true">>),
      maxRetries |-> ParseInt(OrDefault(env.MAX_RETRIES, DefaultMaxRetries)),
      retryDelay |-> ParseInt(OrDefault(env.RETRY_DELAY, DefaultRetryDelay)) ]

\* cloneRepository: repoUrl.split('/').pop().replace('.git', '')
RepoName(repoUrl) == ReplaceFirst(Last(Split(repoUrl, "/")), ".git")

\* The directory git clone <url> creates: the last segment with a .git suffix removed.
GitDirName(repoUrl) ==
    LET seg == Last(Split(repoUrl, "/"))
    IN  IF seg # <<>> /\ Last(seg) = ".git" THEN SubSeq(seg, 1, Len(seg) - 1) ELSE seg

\* fs.existsSync(path.join(__dirname, name)); the empty name is __dirname itself
DirExists(name) == name = <<>> \/ name \in dirs

NoRepo == [owner |-> <<>>, repo |-> <<>>]
SecretNames == <<"DOCKERHUB_USERNAME", "DOCKERHUB_PASSWORD">>

\* node app.js <repo_url> [--multi-stage]
InitApp ==
    /\ entry = "app"
    /\ env \in [ GPT_API_URL : ApiUrlChoices,
                 MAX_RETRIES : MaxRetriesChoices,
                 RETRY_DELAY : RetryDelayChoices,
                 DEFAULT_USE_MULTI_STAGE : MultiStageChoices,
                 GITHUB_TOKEN : {<<>>} ]
    /\ argv \in ArgvChoices
    /\ dirs \in {{}, {<<"repo">>}}
    /\ pc = "start"
    /\ margv = <<>>
    /\ mpc = "idle"

\* node main.js <GitHub_repo_URL>: app.js is started later, as a child process
InitMain ==
    /\ entry = "main"
    /\ env \in [ GPT_API_URL : ApiUrlChoices,
                 MAX_RETRIES : {<<>>, <<"1">>},
                 RETRY_DELAY : {<<>>},
                 DEFAULT_USE_MULTI_STAGE : {<<>>},
                 GITHUB_TOKEN : TokenChoices ]
    /\ argv = <<>>
    /\ dirs = {}
    /\ pc = "idle"
    /\ margv \in MainArgvChoices
    /\ mpc = "start"

Init ==
    /\ InitApp \/ InitMain
    /\ variant \in {1, 2}
    /\ dockerfile \in {NoFile, File(OldDockerfile)}
    /\ before = dockerfile
    /\ mexit = -1
    /\ authenticated = "unknown"
    /\ repoRef = NoRepo
    /\ actualRepoName = <<>>
    /\ secretIdx = 0
    /\ remote = [forked |-> FALSE, secrets |-> {}, pushed |-> FALSE]
    /\ work = [cloned |-> FALSE, workflow |-> FALSE, committed |-> FALSE, pulled |-> FALSE]
    /\ mlog = <<>>
    /\ exitCode = -1
    /\ useMultiStage = FALSE
    /\ repoPath = <<>>
    /\ req = "none"
    /\ prompt = NoPrompt
    /\ i = 0
    /\ trace = <<>>
    /\ content = <<>>
    /\ result = Undefined
    /\ keyFiles = <<>>
    /\ keyFilesContent = <<>>
    /\ projectInfo = NoInfo
    /\ dockerfileContent = <<>>
    /\ log = <<>>

\* ------------------------------------------------------------- app.js

\* process.exit(code), or the end of main() with nothing left to run (code 0)
Exit(code, lg) ==
    /\ pc' = "exited"
    /\ exitCode' = code
    /\ log' = lg

\* the catch block of generateDockerfileForRepo: the error is printed and the
\* function returns normally
Caught(why, lg) == Exit(0, Append(lg, <<"caught", why>>))

\* a retry delay that grows with the attempt
RetryDelay_Growing(attempt) == Num(config.retryDelay.v * (attempt + 1))

\* setTimeout(res, config.retryDelay) in the catch block of callGPTAPIWithRetry
RetryDelay(attempt) == config.retryDelay

\* the last attempt taken to be the one after the last
IsLastAttempt_OffByOne(attempt) == ~config.maxRetries.nan /\ attempt = config.maxRetries.v

\* i === config.maxRetries - 1
IsLastAttempt(attempt) == JSIsLast(attempt, config.maxRetries)

\* response.data.choices[0].message.content.trim()
MessageText(c) == Trim(c)

\* callGPTAPIWithRetry, from its call to the first await: the loop test with i = 0
\* and the first POST, or the fall off the end of the function when the loop body
\* never runs
BeginCall(r, p, lg) ==
    /\ req' = r
    /\ prompt' = p
    /\ i' = 0
    /\ content' = <<>>
    /\ result' = Undefined
    /\ IF JSLess(0, config.maxRetries)
       THEN /\ pc' = "posting"
            /\ trace' = <<Ev("post", Num(0))>>
            /\ log' = Append(lg, <<"post", r>>)
       ELSE /\ pc' = "resolved"
            /\ trace' = <<>>
            /\ log' = lg

\* The module body and main(): the configuration check, the argument check, the
\* effective useMultiStage.
Startup ==
    /\ pc = "start"
    /\ IF config.gptApiUrl = <<>> \/ argv = <<>>
       THEN /\ Exit(1, Append(log, <<"usage", "">>))
            /\ UNCHANGED useMultiStage
       ELSE /\ pc' = "clone"
            /\ useMultiStage' =
                   IF \E n \in 1..Len(argv) : argv[n] = MultiStageFlag
                   THEN TRUE ELSE config.defaultUseMultiStage
            /\ UNCHANGED <<exitCode, log>>
    /\ UNCHANGED <<variant, env, argv, dirs, before, dockerfile, repoPath, req, prompt, i, trace,
                   content, result, keyFiles, keyFilesContent, projectInfo,
                   dockerfileContent>>
    /\ UNCHANGED mainVars

\* git clone whether the directory is there or not
MustClone_Always(repoUrl) == TRUE

\* Whether cloneRepository runs git clone: fs.existsSync(repoPath) is false
MustClone(repoUrl) == ~DirExists(RepoName(repoUrl))

\* cloneRepository, the directory is there: no clone
CloneSkip ==
    /\ pc = "clone"
    /\ ~MustClone(argv[1])
    /\ repoPath' = RepoName(argv[1])
    /\ pc' = "analyze"
    /\ log' = Append(log, <<"exists", "">>)
    /\ UNCHANGED <<variant, env, argv, dirs, before, dockerfile, exitCode, useMultiStage, req,
                   prompt, i, trace, content, result, keyFiles, keyFilesContent,
                   projectInfo, dockerfileContent>>
    /\ UNCHANGED mainVars

\* cloneRepository, git clone --depth 1 succeeds
CloneOK ==
    /\ pc = "clone"
    /\ MustClone(argv[1])
    /\ ~DirExists(GitDirName(argv[1]))
    /\ dirs' = dirs \cup {GitDirName(argv[1])}
    /\ repoPath' = RepoName(argv[1])
    /\ pc' = "analyze"
    /\ log' = Append(log, <<"clone", "">>)
    /\ UNCHANGED <<variant, env, argv, before, dockerfile, exitCode, useMultiStage, req, prompt,
                   i, trace, content, result, keyFiles, keyFilesContent, projectInfo,
                   dockerfileContent>>
    /\ UNCHANGED mainVars

\* cloneRepository, git clone fails: null is returned, generateDockerfileForRepo
\* returns, main() ends
CloneFail ==
    /\ pc = "clone"
    /\ MustClone(argv[1])
    /\ Exit(0, Append(log, <<"cloneFailed", "">>))
    /\ UNCHANGED <<variant, env, argv, dirs, before, dockerfile, useMultiStage, repoPath, req,
                   prompt, i, trace, content, result, keyFiles, keyFilesContent,
                   projectInfo, dockerfileContent>>
    /\ UNCHANGED mainVars

KeyFilesPrompt == [kind |-> "keyfiles", info |-> <<>>, phrases |-> {}]

\* analyzeProjectWithGPT up to its first await: the inspection of the tree (readdirSync
\* throws when repoPath is not there), then identifyKeyFilesWithGPT
BeginAnalysis ==
    /\ pc = "analyze"
    /\ IF DirExists(repoPath)
       THEN /\ BeginCall("keyfiles", KeyFilesPrompt, Append(log, <<"inspect", "">>))
            /\ UNCHANGED exitCode
       ELSE /\ Caught("fs", log)
            /\ UNCHANGED <<req, prompt, i, trace, content, result>>
    /\ UNCHANGED <<variant, env, argv, dirs, before, dockerfile, useMultiStage, repoPath,
                   keyFiles, keyFilesContent, projectInfo, dockerfileContent>>
    /\ UNCHANGED mainVars

\* axios.post resolves with a message: the trimmed content is returned
PostOK ==
    /\ pc = "posting"
    /\ \E c \in Responses(req) :
          /\ content' = c
          /\ result' = Str(MessageText(c))
    /\ trace' = Append(trace, Ev("ok", Num(0)))
    /\ pc' = "resolved"
    /\ log' = Append(log, <<"ok", req>>)
    /\ UNCHANGED <<variant, env, argv, dirs, before, dockerfile, exitCode, useMultiStage,
                   repoPath, req, prompt, i, keyFiles, keyFilesContent, projectInfo,
                   dockerfileContent>>
    /\ UNCHANGED mainVars

\* axios.post rejects (network error, non-2xx status) or the body has no
\* choices[0].message.content: the catch block rethrows on the last attempt and
\* otherwise starts the timer
PostFail ==
    /\ pc = "posting"
    /\ IF IsLastAttempt(i)
       THEN /\ pc' = "rejected"
            /\ trace' = Append(trace, Ev("fail", Num(0)))
       ELSE /\ pc' = "waiting"
            /\ trace' = trace \o <<Ev("fail", Num(0)), Ev("wait", RetryDelay(i))>>
    /\ UNCHANGED <<variant, env, argv, dirs, before, dockerfile, exitCode, useMultiStage,
                   repoPath, req, prompt, i, content, result, keyFiles, keyFilesContent,
                   projectInfo, dockerfileContent, log>>
    /\ UNCHANGED mainVars

\* the timer fires: i++, the loop test, the next POST
TimerFires ==
    /\ pc = "waiting"
    /\ i' = i + 1
    /\ IF JSLess(i + 1, config.maxRetries)
       THEN /\ pc' = "posting"
            /\ trace' = Append(trace, Ev("post", Num(0)))
       ELSE /\ pc' = "resolved"
            /\ trace' = trace
    /\ UNCHANGED <<variant, env, argv, dirs, before, dockerfile, exitCode, useMultiStage,
                   repoPath, req, prompt, content, result, keyFiles, keyFilesContent,
                   projectInfo, dockerfileContent, log>>
    /\ UNCHANGED mainVars

\* the rejection of callGPTAPIWithRetry reaches the catch block of
\* generateDockerfileForRepo
CatchRejection ==
    /\ pc = "rejected"
    /\ Caught("exhausted", log)
    /\ UNCHANGED <<variant, env, argv, dirs, before, dockerfile, useMultiStage, repoPath, req,
                   prompt, i, trace, content, result, keyFiles, keyFilesContent,
                   projectInfo, dockerfileContent>>
    /\ UNCHANGED mainVars

\* the number of characters of a key file that are read
KeyFileBudget == 1000

\* fs.existsSync(path.join(repoPath, file))
PathExists(file) ==
    \/ file \in TreeFiles \cup TreeDirs
    \/ file = <<"Dockerfile">> /\ dockerfile.exists

\* fs.readFileSync(path.join(repoPath, file), 'utf-8') of a regular file
ReadFile(file) == IF file = <<"Dockerfile">> THEN dockerfile.text ELSE FileText(file)

\* extractKeyFilesContent: ok = FALSE stands for the error readFileSync throws on a
\* path that exists and is a directory
RECURSIVE extractKeyFilesContent(_)
extractKeyFilesContent(files) ==
    IF files = <<>> THEN [ok |-> TRUE, content |-> <<>>]
    ELSE LET file == Head(files)
             rest == extractKeyFilesContent(Tail(files))
         IN  IF ~PathExists(file) THEN rest
             ELSE IF file \in TreeDirs \/ ~rest.ok THEN [ok |-> FALSE, content |-> <<>>]
             ELSE [ ok |-> TRUE,
                    content |-> <<"---", " ">> \o file \o <<" ", "---", "\n">>
                                \o Slice(ReadFile(file), 0, KeyFileBudget)
                                \o <<"\n", "\n">> \o rest.content ]

\* identifyKeyFilesWithGPT: response.split(',').map(file => file.trim())
KeyFileList(response) ==
    LET parts == Split(response, ",")
    IN  [n \in 1..Len(parts) |-> Trim(parts[n])]

AnalysisPrompt(filesContent) == [kind |-> "analysis", info |-> filesContent, phrases |-> {}]

\* The phrases of the generation prompt that depend on useMultiStage.
GenerationPhrases(v, multi) ==
    IF v = 1
    THEN IF multi THEN {"Build Type: Multi-stage"} ELSE {"Build Type: Single-stage"}
    ELSE IF multi
         THEN { "Use a multi-stage build to optimize the image size.",
                "Use at least two stages: builder and final." }
         ELSE { "Use a single-stage build only.",
                "Use ONLY ONE stage. Do NOT use any FROM ... AS ... syntax or multiple FROM instructions.",
                "For single-stage build, follow this structure" }

\* generateDockerfileWithGPT: the prompt embeds JSON.stringify(projectInfo, null, 2)
GenerationPrompt(v, info, multi) ==
    [ kind |-> "generation",
      info |-> JSONStringify(info.value),
      phrases |-> GenerationPhrases(v, multi) ]

\* an empty object in place of a response that does not parse
ParseProjectInfo_Fallback(response) ==
    IF JSONParse(cleanJSONResponse(response)).ok
    THEN JSONParse(cleanJSONResponse(response))
    ELSE [ok |-> TRUE, kind |-> "object", value |-> <<"{", "}">>]

\* analyzeProjectWithGPT: JSON.parse(cleanJSONResponse(projectInfoResponse))
ParseProjectInfo(response) == JSONParse(cleanJSONResponse(response))

\* the response written as it came
DockerfileText_Raw(v, response) == response

\* generateDockerfileWithGPT: return cleanDockerfileContent(response)
DockerfileText(v, response) == cleanDockerfileContent(v, response)

\* identifyKeyFilesWithGPT after its await, extractKeyFilesContent, the analysis
\* prompt and the second call of callGPTAPIWithRetry
AfterKeyFiles ==
    /\ pc = "resolved"
    /\ req = "keyfiles"
    /\ IF ~result.defined
       THEN /\ Caught("type", log)
            /\ UNCHANGED <<req, prompt, i, trace, content, result, keyFiles,
                           keyFilesContent>>
       ELSE LET files == KeyFileList(result.text)
                read == extractKeyFilesContent(files)
            IN  /\ keyFiles' = files
                /\ IF read.ok
                   THEN /\ keyFilesContent' = read.content
                        /\ BeginCall("analysis", AnalysisPrompt(read.content),
                                     Append(log, <<"read", "">>))
                        /\ UNCHANGED exitCode
                   ELSE /\ Caught("fs", Append(log, <<"read", "">>))
                        /\ UNCHANGED <<req, prompt, i, trace, content, result,
                                       keyFilesContent>>
    /\ UNCHANGED <<variant, env, argv, dirs, before, dockerfile, useMultiStage, repoPath,
                   projectInfo, dockerfileContent>>
    /\ UNCHANGED mainVars

\* analyzeProjectWithGPT after its last await, then generateDockerfileWithGPT up to
\* its await (no template is configured)
AfterAnalysis ==
    /\ pc = "resolved"
    /\ req = "analysis"
    /\ IF ~result.defined
       THEN /\ Caught("type", log)
            /\ UNCHANGED <<req, prompt, i, trace, content, result, projectInfo>>
       ELSE LET parsed == ParseProjectInfo(result.text)
            IN  IF parsed.ok
                THEN /\ projectInfo' = parsed
                     /\ BeginCall("generation",
                                  GenerationPrompt(variant, parsed, useMultiStage),
                                  Append(log, <<"parsed", "">>))
                     /\ UNCHANGED exitCode
                ELSE /\ Caught("parse", log)
                     /\ UNCHANGED <<req, prompt, i, trace, content, result, projectInfo>>
    /\ UNCHANGED <<variant, env, argv, dirs, before, dockerfile, useMultiStage, repoPath,
                   keyFiles, keyFilesContent, dockerfileContent>>
    /\ UNCHANGED mainVars

\* generateDockerfileWithGPT after its await, and the end of
\* generateDockerfileForRepo: the Dockerfile is written when the text is not empty
AfterGeneration ==
    /\ pc = "resolved"
    /\ req = "generation"
    /\ IF ~result.defined
       THEN /\ Caught("type", log)
            /\ UNCHANGED <<dockerfile, dockerfileContent>>
       ELSE LET text == DockerfileText(variant, result.text)
            IN  /\ dockerfileContent' = text
                /\ IF text # <<>>
                   THEN /\ dockerfile' = File(text)
                        /\ Exit(0, Append(log, <<"write", "">>))
                   ELSE /\ UNCHANGED dockerfile
                        /\ Exit(0, Append(log, <<"invalid", "">>))
    /\ UNCHANGED <<variant, env, argv, dirs, before, useMultiStage, repoPath, req, prompt, i,
                   trace, content, result, keyFiles, keyFilesContent, projectInfo>>
    /\ UNCHANGED mainVars

\* ------------------------------------------------------------ main.js

\* new URL(repoUrl): a scheme, "//" and a host, then the pathname
IsUrl(u) == Len(u) >= 4 /\ u[1] \in {"https:", "http:"} /\ u[2] = "/" /\ u[3] = "/" /\ u[4] # "/"

\* url.pathname.split('/').filter(Boolean)
PathParts(u) == SelectSeq(Split(SubSeq(u, 5, Len(u)), "/"), LAMBDA part : part # <<>>)

\* parseRepoUrl: ok = FALSE stands for the Error it throws
parseRepoUrl(repoUrl) ==
    IF IsUrl(repoUrl) /\ Len(PathParts(repoUrl)) >= 2
    THEN [ok |-> TRUE, owner |-> PathParts(repoUrl)[1],
          repo |-> ReplaceFirst(PathParts(repoUrl)[2], ".git")]
    ELSE [ok |-> FALSE, owner |-> <<>>, repo |-> <<>>]

\* String.prototype.toLowerCase
LowerCase(s) == [n \in 1..Len(s) |-> Lower(s[n])]

\* `${repo.toLowerCase()}-dockerfile-${Date.now()}`, then fork.data.name.toLowerCase()
ForkName(repo) == LowerCase(LowerCase(repo) \o <<"-dockerfile-", "now">>)

\* access taken to be verified whatever users.getAuthenticated answers
verifyGitHubAccess_AlwaysTrue(apiOk) == TRUE

\* verifyGitHubAccess: true when users.getAuthenticated resolves, false when it throws
verifyGitHubAccess(apiOk) == apiOk

\* !process.env.GITHUB_TOKEN
TokenMissing == env.GITHUB_TOKEN = <<>>

\* The catch block of main(), and the process.exit(1) calls before it: the error is
\* printed, nothing is undone, the process exits with status 1.
MainFailAfter(lg, step, k) ==
    /\ mpc' = "exited"
    /\ mexit' = 1
    /\ mlog' = Append(lg, <<step, k, "fail">>)

MainFail(step, k) == MainFailAfter(mlog, step, k)

Done(step, k) == Append(mlog, <<step, k, "ok">>)

\* main() up to its first await: the token check, then users.getAuthenticated is sent
MainStartup ==
    /\ mpc = "start"
    /\ IF TokenMissing
       THEN MainFail("token", 0)
       ELSE /\ mpc' = "auth"
            /\ UNCHANGED <<mexit, mlog>>
    /\ UNCHANGED <<appVars, entry, margv, authenticated, repoRef, actualRepoName,
                   secretIdx, remote, work>>

\* verifyGitHubAccess returns; then the argument check, parseRepoUrl and the
\* createFork request
VerifyAccess ==
    /\ mpc = "auth"
    /\ \E apiOk \in BOOLEAN :
          /\ authenticated' = IF apiOk THEN "yes" ELSE "no"
          /\ IF ~verifyGitHubAccess(apiOk)
             THEN /\ MainFail("auth", 0)
                  /\ UNCHANGED repoRef
             ELSE IF Len(margv) # 1
             THEN /\ MainFailAfter(Done("auth", 0), "usage", 0)
                  /\ UNCHANGED repoRef
             ELSE IF ~parseRepoUrl(margv[1]).ok
             THEN /\ MainFailAfter(Done("auth", 0), "parse", 0)
                  /\ UNCHANGED repoRef
             ELSE /\ repoRef' = [owner |-> parseRepoUrl(margv[1]).owner,
                                 repo |-> parseRepoUrl(margv[1]).repo]
                  /\ mpc' = "fork"
                  /\ mlog' = Done("auth", 0)
                  /\ UNCHANGED mexit
    /\ UNCHANGED <<appVars, entry, margv, actualRepoName, secretIdx, remote, work>>

\* repos.createFork resolves; the 15 s timer is started
ForkOK ==
    /\ mpc = "fork"
    /\ remote' = [remote EXCEPT !.forked = TRUE]
    /\ actualRepoName' = ForkName(repoRef.repo)
    /\ mpc' = "wait"
    /\ mlog' = Done("fork", 0)
    /\ UNCHANGED <<appVars, entry, margv, mexit, authenticated, repoRef, secretIdx, work>>

ForkFail ==
    /\ mpc = "fork"
    /\ MainFail("fork", 0)
    /\ UNCHANGED <<appVars, entry, margv, authenticated, repoRef, actualRepoName,
                   secretIdx, remote, work>>

\* the 15 s timer fires
WaitDone ==
    /\ mpc = "wait"
    /\ mpc' = "clone"
    /\ mlog' = Done("wait", 0)
    /\ UNCHANGED <<appVars, entry, margv, mexit, authenticated, repoRef, actualRepoName,
                   secretIdx, remote, work>>

\* execSync(git clone) succeeds; execSync(node app.js ./<fork>) starts the child
CloneForkOK ==
    /\ mpc = "clone"
    /\ dirs' = dirs \cup {actualRepoName}
    /\ work' = [work EXCEPT !.cloned = TRUE]
    /\ argv' = << <<".", "/">> \o actualRepoName >>
    /\ pc' = "start"
    /\ mpc' = "generate"
    /\ mlog' = Done("clone", 0)
    /\ UNCHANGED <<variant, env, dockerfile, before, exitCode, useMultiStage, repoPath, req,
                   prompt, i, trace, content, result, keyFiles, keyFilesContent,
                   projectInfo, dockerfileContent, log>>
    /\ UNCHANGED <<entry, margv, mexit, authenticated, repoRef, actualRepoName, secretIdx,
                   remote>>

CloneForkFail ==
    /\ mpc = "clone"
    /\ MainFail("clone", 0)
    /\ UNCHANGED <<appVars, entry, margv, authenticated, repoRef, actualRepoName,
                   secretIdx, remote, work>>

\* execSync throws exactly when the child exits with a status other than 0
ChildFailed(status) == status # 0

\* execSync(node app.js) returns or throws; then the workflow file is written and the
\* first createOrUpdateSecret sends getRepoPublicKey
AppReturns ==
    /\ mpc = "generate"
    /\ pc = "exited"
    /\ IF ChildFailed(exitCode)
       THEN /\ MainFail("generate", 0)
            /\ UNCHANGED <<work, secretIdx>>
       ELSE /\ work' = [work EXCEPT !.workflow = TRUE]
            /\ secretIdx' = 1
            /\ mpc' = "getkey"
            /\ mlog' = mlog \o << <<"generate", 0, "ok">>, <<"workflow", 0, "ok">> >>
            /\ UNCHANGED mexit
    /\ UNCHANGED <<appVars, entry, margv, authenticated, repoRef, actualRepoName, remote>>

\* createOrUpdateSecret: actions.getRepoPublicKey resolves
GetKeyOK ==
    /\ mpc = "getkey"
    /\ mpc' = "seal"
    /\ mlog' = Done("getkey", secretIdx)
    /\ UNCHANGED <<appVars, entry, margv, mexit, authenticated, repoRef, actualRepoName,
                   secretIdx, remote, work>>

\* a failed secret takes the uploaded ones with it
SecretsAfterFailure_Rollback(uploaded) == {}

\* What a failed createOrUpdateSecret leaves of the uploaded secrets: its catch block
\* prints and rethrows, nothing is deleted.
SecretsAfterFailure(uploaded) == uploaded

\* createOrUpdateSecret throws at step: its catch block, then the catch block of main()
SecretFail(step) ==
    /\ MainFail(step, secretIdx)
    /\ remote' = [remote EXCEPT !.secrets = SecretsAfterFailure(remote.secrets)]
    /\ UNCHANGED <<appVars, entry, margv, authenticated, repoRef, actualRepoName,
                   secretIdx, work>>

GetKeyFail ==
    /\ mpc = "getkey"
    /\ SecretFail("getkey")

\* createOrUpdateSecret: sodium is ready, the value is sealed and
\* actions.createOrUpdateRepoSecret is sent
SealOK ==
    /\ mpc = "seal"
    /\ mpc' = "upload"
    /\ mlog' = Done("seal", secretIdx)
    /\ UNCHANGED <<appVars, entry, margv, mexit, authenticated, repoRef, actualRepoName,
                   secretIdx, remote, work>>

\* the key is no base64, or the secret value is not set
SealFail ==
    /\ mpc = "seal"
    /\ SecretFail("seal")

\* What main() does after createOrUpdateSecret number k returned: the next secret, or
\* the commit
AfterSecret(k) == IF k < Len(SecretNames) THEN "getkey" ELSE "commit"

\* createOrUpdateSecret: actions.createOrUpdateRepoSecret resolves
UploadOK ==
    /\ mpc = "upload"
    /\ remote' = [remote EXCEPT !.secrets = @ \cup {SecretNames[secretIdx]}]
    /\ mpc' = AfterSecret(secretIdx)
    /\ secretIdx' = IF AfterSecret(secretIdx) = "getkey" THEN secretIdx + 1 ELSE secretIdx
    /\ mlog' = Done("upload", secretIdx)
    /\ UNCHANGED <<appVars, entry, margv, mexit, authenticated, repoRef, actualRepoName,
                   work>>

UploadFail ==
    /\ mpc = "upload"
    /\ SecretFail("upload")

\* process.chdir, git config (twice), git add, git commit
CommitOK ==
    /\ mpc = "commit"
    /\ work' = [work EXCEPT !.committed = TRUE]
    /\ mpc' = "pull"
    /\ mlog' = Done("commit", 0)
    /\ UNCHANGED <<appVars, entry, margv, mexit, authenticated, repoRef, actualRepoName,
                   secretIdx, remote>>

CommitFail ==
    /\ mpc = "commit"
    /\ MainFail("commit", 0)
    /\ UNCHANGED <<appVars, entry, margv, authenticated, repoRef, actualRepoName,
                   secretIdx, remote, work>>

\* git pull --rebase origin main
PullOK ==
    /\ mpc = "pull"
    /\ work' = [work EXCEPT !.pulled = TRUE]
    /\ mpc' = "push"
    /\ mlog' = Done("pull", 0)
    /\ UNCHANGED <<appVars, entry, margv, mexit, authenticated, repoRef, actualRepoName,
                   secretIdx, remote>>

PullFail ==
    /\ mpc = "pull"
    /\ MainFail("pull", 0)
    /\ UNCHANGED <<appVars, entry, margv, authenticated, repoRef, actualRepoName,
                   secretIdx, remote, work>>

\* git push; main() ends
PushOK ==
    /\ mpc = "push"
    /\ remote' = [remote EXCEPT !.pushed = TRUE]
    /\ mpc' = "exited"
    /\ mexit' = 0
    /\ mlog' = Done("push", 0)
    /\ UNCHANGED <<appVars, entry, margv, authenticated, repoRef, actualRepoName,
                   secretIdx, work>>

PushFail ==
    /\ mpc = "push"
    /\ MainFail("push", 0)
    /\ UNCHANGED <<appVars, entry, margv, authenticated, repoRef, actualRepoName,
                   secretIdx, remote, work>>

Next ==
    \/ Startup
    \/ CloneSkip
    \/ CloneOK
    \/ CloneFail
    \/ BeginAnalysis
    \/ PostOK
    \/ PostFail
    \/ TimerFires
    \/ CatchRejection
    \/ AfterKeyFiles
    \/ AfterAnalysis
    \/ AfterGeneration
    \/ MainStartup
    \/ VerifyAccess
    \/ ForkOK
    \/ ForkFail
    \/ WaitDone
    \/ CloneForkOK
    \/ CloneForkFail
    \/ AppReturns
    \/ GetKeyOK
    \/ GetKeyFail
    \/ SealOK
    \/ SealFail
    \/ UploadOK
    \/ UploadFail
    \/ CommitOK
    \/ CommitFail
    \/ PullOK
    \/ PullFail
    \/ PushOK
    \/ PushFail

Spec == Init /\ [][Next]_vars


\* ------------------------------------------------- the sanitizer on its own

\* cleanJSONResponse called directly, as generateDockerfileForRepo's helpers are
\* plain functions of their text: the text is given, the function is applied, and
\* it is applied once more to what it returned.

SeqsUpTo(S, n) == UNION {[1..m -> S] : m \in 0..n}

\* what a completion puts around its answer: fences, the language tag, blanks, prose
WrapLexemes == {Fence, "json", " ", "Here"}
Wraps == SeqsUpTo(WrapLexemes, MaxWrapLen)

\* the answer itself: nothing, an object (empty, flat, nested, with an array), or
\* braces that form no object
JsonBodies ==
    { <<>>,
      <<"{", "}">>,
      <<"{", "\"k\"", ":", "1", "}">>,
      <<"{", "\"k\"", ":", "{", "\"k\"", ":", "1", "}", "}">>,
      <<"{", "\"k\"", ":", " ", "[", "1", "]", "}">>,
      <<"{">>,
      <<"}", " ", "{">> }

JsonTexts == {lead \o body \o trail : lead \in Wraps, body \in JsonBodies, trail \in Wraps}

SanitizerInit ==
    /\ entry = "sanitizer"
    /\ variant \in {1, 2}
    /\ content \in JsonTexts
    /\ pc = "given"
    /\ env = [ GPT_API_URL |-> <<>>, MAX_RETRIES |-> <<>>, RETRY_DELAY |-> <<>>,
               DEFAULT_USE_MULTI_STAGE |-> <<>>, GITHUB_TOKEN |-> <<>> ]
    /\ argv = <<>>
    /\ dirs = {}
    /\ dockerfile = NoFile
    /\ before = NoFile
    /\ exitCode = -1
    /\ useMultiStage = FALSE
    /\ repoPath = <<>>
    /\ req = "none"
    /\ prompt = NoPrompt
    /\ i = 0
    /\ trace = <<>>
    /\ result = Undefined
    /\ keyFiles = <<>>
    /\ keyFilesContent = <<>>
    /\ projectInfo = NoInfo
    /\ dockerfileContent = <<>>
    /\ log = <<>>
    /\ margv = <<>>
    /\ mpc = "idle"
    /\ mexit = -1
    /\ authenticated = "unknown"
    /\ repoRef = NoRepo
    /\ actualRepoName = <<>>
    /\ secretIdx = 0
    /\ remote = [forked |-> FALSE, secrets |-> {}, pushed |-> FALSE]
    /\ work = [cloned |-> FALSE, workflow |-> FALSE, committed |-> FALSE, pulled |-> FALSE]
    /\ mlog = <<>>

\* cleanJSONResponse(content)
CleanJSON ==
    /\ entry = "sanitizer"
    /\ pc = "given"
    /\ result' = Str(cleanJSONResponse(content))
    /\ log' = Append(log, <<"cleanJSON", content>>)
    /\ pc' = "cleaned"
    /\ UNCHANGED <<variant, env, argv, dirs, dockerfile, before, exitCode, useMultiStage,
                   repoPath, req, prompt, i, trace, content, keyFiles, keyFilesContent,
                   projectInfo, dockerfileContent>>
    /\ UNCHANGED mainVars

\* cleanJSONResponse applied to what cleanJSONResponse returned
CleanJSONAgain ==
    /\ entry = "sanitizer"
    /\ pc = "cleaned"
    /\ result' = Str(cleanJSONResponse(result.text))
    /\ log' = Append(log, <<"cleanJSON", result.text>>)
    /\ pc' = "cleanedAgain"
    /\ UNCHANGED <<variant, env, argv, dirs, dockerfile, before, exitCode, useMultiStage,
                   repoPath, req, prompt, i, trace, content, keyFiles, keyFilesContent,
                   projectInfo, dockerfileContent>>
    /\ UNCHANGED mainVars

SanitizerNext == CleanJSON \/ CleanJSONAgain

SanitizerSpec == SanitizerInit /\ [][SanitizerNext]_vars

\* ---------------------------------------------------------------- claims

Has(lg, e) == \E n \in 1..Len(lg) : lg[n] = e

\* the position of the first e in lg, 0 when there is none
Pos(lg, e) == IF Has(lg, e) THEN CHOOSE n \in 1..Len(lg) : lg[n] = e /\ \A m \in 1..(n - 1) : lg[m] # e ELSE 0

CountEv(tr, e) == Cardinality({n \in 1..Len(tr) : tr[n].ev = e})

\* k failed attempts, each followed by one wait of d
RECURSIVE RetryPattern(_, _)
RetryPattern(k, d) ==
    IF k = 0 THEN <<>>
    ELSE <<Ev("post", Num(0)), Ev("fail", Num(0)), Ev("wait", d)>> \o RetryPattern(k - 1, d)

\* C1: when the endpoint fails the first k < maxRetries calls of one
\* callGPTAPIWithRetry and then succeeds, the call returns the trimmed content of
\* the successful response, the endpoint was invoked exactly k+1 times, and exactly
\* k waits occurred, each of the configured retryDelay and each right after a
\* failed attempt and before the next one.
C1_RetrySuccess ==
    (trace # <<>> /\ Last(trace).ev = "ok") =>
        LET k == CountEv(trace, "fail")
        IN  /\ ~config.maxRetries.nan
            /\ config.maxRetries.v >= 1
            /\ k < config.maxRetries.v
            /\ pc \in {"resolved", "exited"}
            /\ content \in Responses(req)
            /\ result = Str(Trim(content))
            /\ CountEv(trace, "post") = k + 1
            /\ CountEv(trace, "wait") = k
            /\ trace = RetryPattern(k, config.retryDelay) \o <<Ev("post", Num(0)), Ev("ok", Num(0))>>

\* two failures, two waits, then a success whose content had blanks to trim
C1_Witness ==
    /\ pc = "resolved"
    /\ result.defined
    /\ CountEv(trace, "fail") = 2
    /\ result.text # content

\* C2: when the endpoint fails on maxRetries consecutive calls of one
\* callGPTAPIWithRetry (maxRetries >= 1), the endpoint was invoked exactly
\* maxRetries times, no wait follows the last failure, the call returns nothing and
\* its failure reaches the caller.
C2_RetryExhaustion ==
    /\ (~config.maxRetries.nan /\ config.maxRetries.v >= 1
            /\ CountEv(trace, "fail") = config.maxRetries.v) =>
           /\ pc \in {"rejected", "exited"}
           /\ result = Undefined
           /\ CountEv(trace, "post") = config.maxRetries.v
           /\ CountEv(trace, "wait") = config.maxRetries.v - 1
           /\ trace = RetryPattern(config.maxRetries.v - 1, config.retryDelay)
                          \o <<Ev("post", Num(0)), Ev("fail", Num(0))>>
           /\ pc = "exited" => Last(log) = <<"caught", "exhausted">>
    /\ pc = "rejected" =>
           /\ ~config.maxRetries.nan
           /\ CountEv(trace, "fail") = config.maxRetries.v

\* three failures with maxRetries = 3: the call has thrown
C2_Witness ==
    /\ pc = "rejected"
    /\ config.maxRetries = Num(3)
    /\ CountEv(trace, "fail") = 3
    /\ CountEv(trace, "wait") = 2

IsPrefix(a, b) == Len(a) <= Len(b) /\ SubSeq(b, 1, Len(a)) = a

\* the steps of the CI provisioning flow, in the order of main(): <<step, secret>>
MainOrder ==
    << <<"auth", 0>>, <<"fork", 0>>, <<"wait", 0>>, <<"clone", 0>>, <<"generate", 0>>,
       <<"workflow", 0>>, <<"getkey", 1>>, <<"seal", 1>>, <<"upload", 1>>, <<"getkey", 2>>,
       <<"seal", 2>>, <<"upload", 2>>, <<"commit", 0>>, <<"pull", 0>>, <<"push", 0>> >>

\* the steps main.js took, without the checks that are no step of the flow
StepsTaken ==
    LET kept == SelectSeq(mlog, LAMBDA e : e[1] \notin {"token", "usage", "parse"})
    IN  [n \in 1..Len(kept) |-> <<kept[n][1], kept[n][2]>>]

StepTaken(step) == \E n \in 1..Len(mlog) : mlog[n][1] = step

\* the analysis+generation pipeline of the child has ended without a Dockerfile
PipelineFailed == pc = "exited" /\ ~Has(log, <<"write", "">>)

\* the steps of main.js come in the order of MainOrder and a failed step is the last
StepsInOrder ==
    /\ IsPrefix(StepsTaken, MainOrder)
    /\ \A n \in 1..Len(mlog) : mlog[n][3] = "fail" => n = Len(mlog) /\ mpc = "exited"

\* C3: the steps of the CI provisioning flow run in order, a failed step is the last
\* step of the run, a failure inside the analysis+generation pipeline lets no later
\* step run, and nothing is committed or pushed in a run whose generation step
\* wrote no Dockerfile.
C3_AbortOnFailure ==
    entry = "main" =>
        /\ StepsInOrder
        /\ PipelineFailed =>
               \A step \in {"workflow", "getkey", "seal", "upload", "commit", "pull", "push"} :
                   ~StepTaken(step)
        /\ (work.committed \/ remote.pushed) => Has(log, <<"write", "">>)

\* an error of the pipeline: the clone failed, a completion call used up its
\* retries, or the analysis response did not parse
PipelineError ==
    \/ Has(log, <<"cloneFailed", "">>)
    \/ Has(log, <<"caught", "exhausted">>)
    \/ Has(log, <<"caught", "parse">>)

\* C4: a run of app.js in which the clone fails, a completion call exhausts its
\* retries or the analysis response fails JSON parsing exits with a non-zero status.
C4_ErrorsExitNonZero ==
    (entry = "app" /\ pc = "exited" /\ PipelineError) => exitCode # 0

\* the stage events of a run that writes the Dockerfile, after the fetch
WritingRun ==
    << <<"inspect", "">>, <<"post", "keyfiles">>, <<"ok", "keyfiles">>, <<"read", "">>,
       <<"post", "analysis">>, <<"ok", "analysis">>, <<"parsed", "">>,
       <<"post", "generation">>, <<"ok", "generation">>, <<"write", "">> >>

\* C5: in a run that writes <repoPath>/Dockerfile exactly three logical completion
\* requests succeeded before the write, in the order key files, analysis,
\* generation; the key files are read after the first response, the generation
\* request is issued after the analysis response was parsed, and the text written
\* is the sanitized (trimmed, then cleaned) generation response.
C5_PipelineOrder ==
    Has(log, <<"write", "">>) =>
        /\ Len(log) = Len(WritingRun) + 1
        /\ log[1] \in {<<"exists", "">>, <<"clone", "">>}
        /\ SubSeq(log, 2, Len(log)) = WritingRun
        /\ SelectSeq(log, LAMBDA e : e[1] = "ok")
               = << <<"ok", "keyfiles">>, <<"ok", "analysis">>, <<"ok", "generation">> >>
        /\ projectInfo.ok
        /\ prompt.kind = "generation"
        /\ content \in GenerationResponses
        /\ dockerfileContent = cleanDockerfileContent(variant, Trim(content))
        /\ dockerfileContent # <<>>
        /\ dockerfile = File(dockerfileContent)

\* a Dockerfile was written and the sanitizer had something to remove
C5_Witness ==
    /\ Has(log, <<"write", "">>)
    /\ dockerfile.exists
    /\ dockerfile.text # Trim(content)
    /\ dockerfile # before

NoRequestSent == \A n \in 1..Len(log) : log[n][1] # "post"

\* C6: cloneRepository runs git clone exactly when the derived directory does not
\* exist (with the directory there it clones nothing and no directory appears);
\* the inspection starts only when the directory existed or the clone succeeded;
\* after a failed clone no completion request is sent and the Dockerfile is not
\* written.
C6_FetcherGate ==
    /\ [][(pc = "clone" /\ pc' # "clone") =>
             /\ (Last(log') \in {<<"clone", "">>, <<"cloneFailed", "">>})
                    <=> ~DirExists(RepoName(argv[1]))
             /\ Last(log') # <<"clone", "">> => dirs' = dirs]_vars
    /\ [](Has(log, <<"inspect", "">>) =>
             Has(log, <<"exists", "">>) \/ Has(log, <<"clone", "">>))
    /\ [](Has(log, <<"cloneFailed", "">>) =>
             /\ pc = "exited"
             /\ NoRequestSent
             /\ ~Has(log, <<"inspect", "">>)
             /\ ~Has(log, <<"write", "">>)
             /\ dockerfile = before)

\* the directory was not there and git clone failed: the run is over
C6_Witness ==
    /\ pc = "exited"
    /\ Last(log) = <<"cloneFailed", "">>
    /\ ~DirExists(RepoName(argv[1]))

\* C7: when the sanitized analysis response is not valid JSON, analyzeProjectWithGPT
\* throws: no generation request is sent, no project info is put in its place, and
\* <repoPath>/Dockerfile stays as it was before the run.
C7_ParseErrorFatal ==
    /\ [][(pc = "resolved" /\ req = "analysis" /\ result.defined
               /\ ~JSONValid(cleanJSONResponse(result.text))) =>
             /\ pc' = "exited"
             /\ Last(log') = <<"caught", "parse">>
             /\ projectInfo' = NoInfo
             /\ prompt'.kind = "analysis"]_vars
    /\ [](Has(log, <<"caught", "parse">>) =>
             /\ pc = "exited"
             /\ ~Has(log, <<"post", "generation">>)
             /\ ~Has(log, <<"write", "">>)
             /\ projectInfo = NoInfo
             /\ dockerfile = before)

\* the analysis response did not parse and the Dockerfile of before the run is there
C7_Witness ==
    /\ pc = "exited"
    /\ Last(log) = <<"caught", "parse">>
    /\ ~JSONValid(cleanJSONResponse(result.text))
    /\ before.exists
    /\ dockerfile = before

\* C8: whenever the generation prompt is built, the project info embedded in it was
\* parsed from the analysis response and is a JSON object.
C8_ProjectInfoIsObject ==
    prompt.kind = "generation" =>
        /\ projectInfo.ok
        /\ prompt.info = JSONStringify(projectInfo.value)
        /\ projectInfo.kind = "object"

\* something was changed on the platform or on disk by main.js
Mutated ==
    \/ remote.forked
    \/ remote.secrets # {}
    \/ remote.pushed
    \/ work.cloned
    \/ work.workflow
    \/ work.committed
    \/ \E step \in {"fork", "clone", "generate", "workflow", "upload", "commit", "pull", "push"} :
           StepTaken(step)

\* C9: main.js forks, clones, writes, uploads, commits or pushes only when
\* GITHUB_TOKEN is set and users.getAuthenticated succeeded; with the token missing
\* or the authentication failed it exits with status 1 at once.
C9_AuthFirst ==
    /\ Mutated => (~TokenMissing /\ authenticated = "yes")
    /\ (entry = "main" /\ TokenMissing /\ mpc # "start") =>
           (mpc = "exited" /\ mexit = 1 /\ authenticated = "unknown" /\ Len(mlog) = 1)
    /\ authenticated = "no" =>
           (mpc = "exited" /\ mexit = 1 /\ Last(mlog) = <<"auth", 0, "fail">>)

\* the token is set, the authentication failed, main.js has exited with status 1
C9_Witness ==
    /\ entry = "main"
    /\ ~TokenMissing
    /\ authenticated = "no"
    /\ mexit = 1
    /\ ~Mutated

SecretSteps == {"getkey", "seal", "upload"}

\* the steps of the two createOrUpdateSecret calls, in the order main.js took them
SecretStepsTaken ==
    LET kept == SelectSeq(mlog, LAMBDA e : e[1] \in SecretSteps)
    IN  [n \in 1..Len(kept) |-> <<kept[n][1], kept[n][2]>>]

SecretOrder ==
    << <<"getkey", 1>>, <<"seal", 1>>, <<"upload", 1>>,
       <<"getkey", 2>>, <<"seal", 2>>, <<"upload", 2>> >>

\* the secrets whose upload succeeded
Uploaded == {SecretNames[k] : k \in {j \in 1..Len(SecretNames) : Has(mlog, <<"upload", j, "ok">>)}}

\* C10: each of the two secrets is provisioned by its own getRepoPublicKey, seal,
\* upload sequence; a failure while provisioning a secret leaves every uploaded
\* secret in place and is the last step of the run; commit, pull and push run only
\* after both uploads succeeded.
C10_SecretProvisioning ==
    /\ IsPrefix(SecretStepsTaken, SecretOrder)
    /\ remote.secrets = Uploaded
    /\ \A n \in 1..Len(mlog) :
           (mlog[n][1] \in SecretSteps /\ mlog[n][3] = "fail") =>
               (n = Len(mlog) /\ mpc = "exited" /\ mexit = 1)
    /\ (work.committed \/ remote.pushed \/ StepTaken("commit") \/ StepTaken("pull")
            \/ StepTaken("push")) =>
           remote.secrets = {SecretNames[1], SecretNames[2]}

\* the first secret is uploaded, the second failed: the first is still there and
\* nothing was committed
C10_Witness ==
    /\ Has(mlog, <<"upload", 1, "ok">>)
    /\ Last(mlog)[2] = 2
    /\ Last(mlog)[3] = "fail"
    /\ remote.secrets = {SecretNames[1]}
    /\ ~work.committed
    /\ mpc = "exited"

\* the generation call returned a string and cleanDockerfileContent was applied to it
Sanitized ==
    /\ pc = "exited"
    /\ req = "generation"
    /\ result.defined
    /\ Last(log)[1] \in {"write", "invalid"}

\* C11: when the text given to cleanDockerfileContent contains the token FROM in any
\* letter case, the text returned begins with FROM (in any case); when it does not,
\* the text returned is the input with the fence markers removed, trimmed, and one
\* enclosing pair of quotes stripped.
C11_FromGuarantee ==
    Sanitized =>
        IF FromIndex(result.text) # -1
        THEN dockerfileContent # <<>> /\ Lower(Head(dockerfileContent)) = "from"
        ELSE dockerfileContent = StripQuotes(Trim(StripFences(result.text, "dockerfile")))

WithoutGitSuffix(name) ==
    IF name # <<>> /\ Last(name) = ".git" THEN SubSeq(name, 1, Len(name) - 1) ELSE name

\* C13: the directory name cloneRepository derives from its argument is the last
\* segment of the argument with a .git suffix removed and nothing else altered, and
\* the repository name parseRepoUrl returns is the repository segment of the URL
\* with a .git suffix removed.
C13_RepoNameDerivation ==
    /\ (Has(log, <<"exists", "">>) \/ Has(log, <<"clone", "">>)) =>
           repoPath = WithoutGitSuffix(Last(Split(argv[1], "/")))
    /\ repoRef # NoRepo =>
           repoRef.repo = WithoutGitSuffix(PathParts(margv[1])[2])

\* the number of files extractKeyFilesContent read
FilesRead == Cardinality({n \in 1..Len(keyFilesContent) : keyFilesContent[n] = "---"}) \div 2

\* C14: the list identifyKeyFilesWithGPT returns has at most 10 entries, and
\* extractKeyFilesContent reads at most 10 files in a run.
C14_KeyFileBound ==
    /\ Len(keyFiles) <= KeyFileLimit
    /\ FilesRead <= KeyFileLimit

\* C15: extractKeyFilesContent never raises: once identifyKeyFilesWithGPT returned
\* its list, every entry that names no existing file is skipped, the files that
\* exist are the ones read, and the analysis request is sent.
C15_KeyFilesNeverRaise ==
    Has(log, <<"read", "">>) =>
        /\ Has(log, <<"post", "analysis">>)
        /\ FilesRead = Cardinality({n \in 1..Len(keyFiles) : keyFiles[n] \in TreeFiles})

\* the directive that mandates the two named stages, and the single-stage prohibition
BuilderFinalDirective == "Use at least two stages: builder and final."
SingleStageProhibition ==
    "Use ONLY ONE stage. Do NOT use any FROM ... AS ... syntax or multiple FROM instructions."

\* C16: the effective useMultiStage is true when --multi-stage is among the arguments
\* and otherwise is the configured default (DEFAULT_USE_MULTI_STAGE equal to "true");
\* the generation prompt holds the builder/final directive exactly when useMultiStage
\* is true and the single-stage prohibition exactly when it is false.
C16_MultiStageDirective ==
    /\ (pc \notin {"idle", "start"} /\ ~Has(log, <<"usage", "">>)) =>
           useMultiStage = (\/ \E n \in 1..Len(argv) : argv[n] = MultiStageFlag
                            \/ env.DEFAULT_USE_MULTI_STAGE = <<"true">>)
    /\ prompt.kind = "generation" =>
           /\ (BuilderFinalDirective \in prompt.phrases) <=> useMultiStage
           /\ (SingleStageProhibition \in prompt.phrases) <=> ~useMultiStage

\* C17: whatever MAX_RETRIES is set to, callGPTAPIWithRetry posts to the endpoint at
\* least once and ends by returning a string or by throwing: it never returns
\* without a value.
C17_CallAlwaysResolves ==
    pc \in {"resolved", "rejected"} =>
        /\ \E n \in 1..Len(trace) : trace[n].ev = "post"
        /\ pc = "resolved" => result.defined

====
